---- MODULE Spec2Model ----
(***************************************************************************)
(* State machine of the esp32 scale firmware: the debouncing button        *)
(* dispatcher thread (button.rs), the mpsc event channel, and the main     *)
(* thread running Scale (scale.rs) from main (main.rs).                    *)
(***************************************************************************)
EXTENDS Integers, Sequences, FiniteSets, TLC

\* ---------------------------------------------------------------- constants
\* button.rs:9, button.rs:11, button.rs:13 (milliseconds, 16-bit mask)
CONFIG_ESP32_BUTTON_LONG_PRESS_DURATION_MS == 3000
CONFIG_ESP32_POLLING_PERIOD_MS == 10
HISTORY_MASK == 61503

\* width of the u16 history register
U16 == 65536
ROSE_PATTERN == 63
FELL_PATTERN == 61440
ALL_ONES == 65535
ALL_ZEROS == 0

\* Option::None for the two Option<Instant> fields and the Option<ButtonEvent>
None == -1

\* ButtonEvent (button.rs:16-20)
ButtonEvent == {"Up", "Down", "Held"}

\* ------------------------------------------------------------------- bounds
\* clock readings explored: at most MaxStalls long delays and, besides them,
\* at most MaxRunTicks delays of one polling period
MaxStalls == 1
MaxRunTicks == 22
\* the pin changes level at most MaxToggles times
MaxToggles == 3
\* failed sensor reads explored in one get_avg_reading
MaxRetries == 1
\* events queued when poll_action is explored on its own
MaxQueue == 3
\* level changes of the pin when the dispatcher is explored on its own
MaxPinChanges == 2
\* calls made in a row when button_rose / button_fell are explored directly
MaxCalls == 2
\* largest magnitude of the sum of sixteen readings when the store is explored
MaxSum == 40
\* polling-period delays explored in the whole program
MaxProgTicks == 19
\* raw HX711 readings explored
RawReadings == {-1, 1}
\* sums of the sixteen readings of calibrations before the explored run
PriorSums == {3}

VARIABLES
    inverted,        \* Button.inverted
    history,         \* Button.history (u16)
    down_time,       \* Button.down_time
    next_long_time,  \* Button.next_long_time
    event_queue,     \* the mpsc channel between Sender and Receiver
    now,             \* last reading of the monotonic clock (Instant::now)
    pin,             \* electrical level of the button pin, 1 = High
    toggles,         \* number of level changes of the pin so far
    steady,          \* samples taken at the present level since it last changed
    clean,           \* the last change left a settled released history
    released_after,  \* ms from Down to the pin's return to released, if any
    sent,            \* every event the dispatcher has pushed, in order
    raw,             \* the last 16 levels button_update read, newest in bit 0
    nsamples,        \* levels read since the thread started (counted to 16)
    fresh,           \* levels shifted in since history was last set whole
    probe,           \* results of button_rose / button_fell called directly
    sender_alive,    \* the Sender end of the channel still exists
    pc,              \* position of the main thread
    stack,           \* positions the main thread returns to
    last_button_event, \* Scale.last_button_event
    scale_factor,    \* Scale.scale_factor (None or an f32)
    hx_scale,        \* the scale set on the HX711 (an f32)
    nvs,             \* value stored under SCALE_FACTOR_KEY (None or a u32)
    sum,             \* get_avg_reading: sum
    count,           \* get_avg_reading: count
    retries,         \* failed reads in the present get_avg_reading
    scale_action,    \* main: the action returned by the last poll_action
    recvd,           \* every event taken off the channel, in order
    polled,          \* <<event, action, position of the event in sent>> of every
                     \* poll_action that got an event
    prompted,        \* events sent so far when calibrate last drew a text
    waited,          \* the events the present or last wait_for_event took
    cal_log          \* what the present run of calibrate has done so far

bvars == <<inverted, history, down_time, next_long_time, event_queue,
           now, pin, toggles, steady, clean, released_after, sent,
           raw, nsamples, fresh, probe>>

mvars == <<sender_alive, pc, stack, last_button_event, scale_factor, hx_scale,
           nvs, sum, count, retries, scale_action, recvd, polled, prompted, waited,
           cal_log>>

vars == <<bvars, mvars>>

\* ------------------------------------------------------- 16-bit arithmetic
RECURSIVE BitAnd(_, _, _)
BitAnd(a, b, n) ==
    IF n = 0 THEN 0
    ELSE (IF a % 2 = 1 /\ b % 2 = 1 THEN 1 ELSE 0)
         + 2 * BitAnd(a \div 2, b \div 2, n - 1)

RECURSIVE BitOr(_, _, _)
BitOr(a, b, n) ==
    IF n = 0 THEN 0
    ELSE (IF a % 2 = 1 \/ b % 2 = 1 THEN 1 ELSE 0)
         + 2 * BitOr(a \div 2, b \div 2, n - 1)

\* (history << 1) on a u16 drops the bit shifted out of position 15
Shl1(h) == (h * 2) % U16

\* --------------------------------------------------------- debounce engine
\* a button_update that ors the sample in without shifting
button_update_unshifted(h, level) == BitOr(h, level, 16)

\* Button::button_update: shift the sample into bit 0
button_update(h, level) == BitOr(Shl1(h), level, 16)

\* a button_rose that reports the edge and leaves the history as it is
button_rose_kept(h) ==
    [ret |-> BitAnd(h, HISTORY_MASK, 16) = ROSE_PATTERN, history |-> h]

\* Button::button_rose / button_fell: result and the history they leave
button_rose(h) ==
    IF BitAnd(h, HISTORY_MASK, 16) = ROSE_PATTERN
    THEN [ret |-> TRUE, history |-> ALL_ONES]
    ELSE [ret |-> FALSE, history |-> h]

\* a button_fell that is content with the three newest samples
button_fell_hasty(h) ==
    IF h % 8 = 0 /\ h \div 4096 = 15
    THEN [ret |-> TRUE, history |-> ALL_ZEROS]
    ELSE [ret |-> FALSE, history |-> h]

button_fell(h) ==
    IF BitAnd(h, HISTORY_MASK, 16) = FELL_PATTERN
    THEN [ret |-> TRUE, history |-> ALL_ZEROS]
    ELSE [ret |-> FALSE, history |-> h]

button_up(inv, h) == IF inv THEN button_rose(h) ELSE button_fell(h)

button_down_swapped(inv, h) == IF inv THEN button_rose(h) ELSE button_fell(h)

button_down(inv, h) == IF inv THEN button_fell(h) ELSE button_rose(h)

\* Button::new: the history of a button that has been idle
NewHistory(inv) == IF inv THEN ALL_ONES ELSE ALL_ZEROS

\* level of the pin while the button is pressed / released
PressedLevel(inv) == IF inv THEN 0 ELSE 1
ReleasedLevel(inv) == IF inv THEN 1 ELSE 0

\* ------------------------------------------------------------------ channel
\* Sender::send
Send(e) ==
    /\ event_queue' = Append(event_queue, e)
    /\ sent' = Append(sent, e)

NoSend == UNCHANGED <<event_queue, sent>>

\* ----------------------------------------------------------------- actions
\* button.rs:58, the test that the long press is due at clock reading t
held_due_late(t, deadline) == t > deadline

held_due(t, deadline) == t >= deadline

\* button.rs:65-66, the deadline armed by a press confirmed at clock reading t
long_press_deadline_none(t) == t

long_press_deadline(t) == t + CONFIG_ESP32_BUTTON_LONG_PRESS_DURATION_MS

\* a Held branch that looks at the deadline alone
held_armed_stale(dt, nlt) == nlt # None

\* button.rs:55-56, the pattern that lets the Held branch be entered
held_armed(dt, nlt) == dt # None /\ nlt # None

\* button.rs:60, next_long_time once Held has been sent
next_long_after_held_kept == next_long_time

next_long_after_held == None

\* One iteration of the loop of Button::start_task, entered d milliseconds
\* after the previous one.
TickAt(d) ==
    sender_alive /\
    LET t == now + d
        h1 == button_update(history, pin)
        up == button_up(inverted, h1)
        h2 == IF down_time # None THEN up.history ELSE h1
        dn == button_down(inverted, h2)
    IN  /\ now' = t
        /\ steady' = IF steady < 16 THEN steady + 1 ELSE steady
        /\ raw' = ((2 * raw) % U16) + pin
        /\ nsamples' = IF nsamples < 16 THEN nsamples + 1 ELSE nsamples
        /\ fresh' = IF (down_time # None /\ up.ret) \/ (down_time = None /\ dn.ret)
                    THEN 0
                    ELSE IF fresh < 16 THEN fresh + 1 ELSE fresh
        /\ UNCHANGED <<inverted, pin, toggles, clean, released_after, probe>>
        /\ UNCHANGED mvars
        /\ IF down_time # None /\ up.ret
           THEN /\ down_time' = None
                /\ history' = h2
                /\ Send("Up")
                /\ UNCHANGED next_long_time
           ELSE IF held_armed(down_time, next_long_time)
           THEN /\ history' = h2
                /\ UNCHANGED down_time
                /\ IF held_due(t, next_long_time)
                   THEN next_long_time' = next_long_after_held /\ Send("Held")
                   ELSE UNCHANGED next_long_time /\ NoSend
           ELSE IF down_time = None /\ dn.ret
           THEN /\ down_time' = t
                /\ next_long_time' = long_press_deadline(t)
                /\ history' = dn.history
                /\ Send("Down")
           ELSE /\ history' = IF down_time = None THEN dn.history ELSE h2
                /\ UNCHANGED <<down_time, next_long_time>>
                /\ NoSend

\* FreeRtos::delay_ms returns after at least the polling period; the thread
\* may also be kept off the CPU until just short of the long-press duration.
STALL_MS == CONFIG_ESP32_BUTTON_LONG_PRESS_DURATION_MS - CONFIG_ESP32_POLLING_PERIOD_MS

Delays == {CONFIG_ESP32_POLLING_PERIOD_MS, STALL_MS}

\* the clock readings within the explored bounds
ClockReadings ==
    {b * STALL_MS + a * CONFIG_ESP32_POLLING_PERIOD_MS :
        b \in 0..MaxStalls, a \in 0..MaxRunTicks}

Tick == \E d \in Delays : TickAt(d)

\* The operator presses or releases the button (or a contact bounces).
PinChange ==
    /\ toggles < MaxToggles
    /\ pin' = 1 - pin
    /\ toggles' = toggles + 1
    /\ steady' = 0
    /\ clean' = (down_time = None /\ history = NewHistory(inverted)
                 /\ pin = ReleasedLevel(inverted))
    /\ released_after' = IF pin = PressedLevel(inverted) /\ down_time # None
                         THEN now - down_time ELSE None
    /\ UNCHANGED <<inverted, history, down_time, next_long_time, event_queue,
                   now, sent, raw, nsamples, fresh, probe>>
    /\ UNCHANGED mvars

\* -------------------------------------------------------------- f32 values
\* An f32 is its sign, biased exponent and fraction fields; a u32 is its
\* high and low 16-bit halves.
Pow2(n) == IF n = 0 THEN 1 ELSE LET RECURSIVE P(_)
                                    P(k) == IF k = 0 THEN 1 ELSE 2 * P(k - 1)
                                IN  P(n)

F32_ONE == [s |-> 0, e |-> 127, m |-> 0]
F32_INF(sign) == [s |-> sign, e |-> 255, m |-> 0]

\* scale q (or p) by two until q <= p < 2q; k counts the binary exponent
RECURSIVE Normalise(_, _, _)
Normalise(p, q, k) ==
    IF p >= 2 * q THEN Normalise(p, 2 * q, k + 1)
    ELSE IF p < q THEN Normalise(2 * p, q, k - 1)
    ELSE [p |-> p, q |-> q, k |-> k]

\* binary long division: n more quotient bits of r / q appended to acc
RECURSIVE DivBits(_, _, _, _)
DivBits(r, q, acc, n) ==
    IF n = 0 THEN [acc |-> acc, r |-> r]
    ELSE IF 2 * r >= q THEN DivBits(2 * r - q, q, 2 * acc + 1, n - 1)
    ELSE DivBits(2 * r, q, 2 * acc, n - 1)

\* the f32 nearest to (-1)^sign * p / q for p > 0, q > 0, ties to even
F32Round(sign, p, q) ==
    LET n == Normalise(p, q, 0)
        d == DivBits(n.p - n.q, n.q, 1, 23)
        up == 2 * d.r > n.q \/ (2 * d.r = n.q /\ d.acc % 2 = 1)
        sig == IF up THEN d.acc + 1 ELSE d.acc
        carry == sig = Pow2(24)
    IN  [s |-> sign,
         e |-> n.k + 127 + (IF carry THEN 1 ELSE 0),
         m |-> IF carry THEN 0 ELSE sig - Pow2(23)]

Abs(x) == IF x < 0 THEN -x ELSE x

\* f32::to_bits / f32::from_bits
to_bits(f) ==
    [hi |-> f.s * Pow2(15) + f.e * Pow2(7) + f.m \div Pow2(16),
     lo |-> f.m % Pow2(16)]

\* a decoding that loses the sign bit
from_bits_unsigned(u) ==
    [s |-> 0,
     e |-> (u.hi \div Pow2(7)) % Pow2(8),
     m |-> (u.hi % Pow2(7)) * Pow2(16) + u.lo]

from_bits(u) ==
    [s |-> u.hi \div Pow2(15),
     e |-> (u.hi \div Pow2(7)) % Pow2(8),
     m |-> (u.hi % Pow2(7)) * Pow2(16) + u.lo]

\* ------------------------------------------------------------------- Scale
\* scale.rs:22-24
SCALE_TARE_NUM_SAMPLES == 16
SCALE_CALIBRATION_NUM_SAMPLES == 16
SCALE_CALIBRATION_WEIGHT_GRAMS == 2000

\* Option values of the main thread: <<>> is None, <<x>> is Some(x)
Some(x) == <<x>>
NoneOpt == <<>>

\* scale.rs:164, avg_result == 0.0 for avg_result = (sum / count) as f32: the
\* quotient of a non-zero i64 by 16 never rounds to zero
avg_is_zero_never(total, n) == FALSE

avg_is_zero(total, n) == total = 0

\* scale.rs:170, SCALE_CALIBRATION_WEIGHT_GRAMS / avg_result.  sum / count is
\* exact in f64 and in f32 for |sum| < 2^24 and count = 16, so the quotient
\* is 2000 * count / sum rounded once; a zero divisor gives an infinity.
calibration_factor(total, n) ==
    IF total = 0 THEN F32_INF(0)
    ELSE F32Round(IF total < 0 THEN 1 ELSE 0,
                  SCALE_CALIBRATION_WEIGHT_GRAMS * n, Abs(total))

\* scale.rs:179-190, where calibrate goes on after set_u32 returned: both
\* arms only print
after_save_propagated(set_ok) == IF set_ok THEN "cal_clear2" ELSE "exit"

after_save(set_ok) == "cal_clear2"

\* button.rs:130, the test that ends wait_for_event
wait_matches_any(received_event, event) == TRUE

wait_matches(received_event, event) == received_event = event

\* scale.rs:197-216, the match of poll_action on a dequeued event: the new
\* last_button_event and the action returned
poll_match_held_kept(last, button_event) ==
    IF button_event = "Down"
    THEN [last |-> Some(button_event), action |-> NoneOpt]
    ELSE IF button_event = "Held"
    THEN [last |-> last,
          action |-> IF last = Some("Down") THEN Some("Calibrate") ELSE NoneOpt]
    ELSE [last |-> Some(button_event),
          action |-> IF last = Some("Down") THEN Some("Tare") ELSE NoneOpt]

poll_match(last, button_event) ==
    IF button_event = "Down"
    THEN [last |-> Some(button_event), action |-> NoneOpt]
    ELSE IF button_event = "Held"
    THEN [last |-> Some(button_event),
          action |-> IF last = Some("Down") THEN Some("Calibrate") ELSE NoneOpt]
    ELSE [last |-> Some(button_event),
          action |-> IF last = Some("Down") THEN Some("Tare") ELSE NoneOpt]

\* Receiver::try_recv / recv take the oldest event
Dequeue ==
    /\ event_queue' = Tail(event_queue)
    /\ recvd' = Append(recvd, Head(event_queue))

NoDequeue == UNCHANGED <<event_queue, recvd>>

dvars == <<inverted, history, down_time, next_long_time, now, pin, toggles,
           steady, clean, released_after, sent, sender_alive,
           raw, nsamples, fresh, probe>>

Log(x) == cal_log' = Append(cal_log, x)

RecvTag(e) ==
    CASE e = "Down" -> "recv_Down"
      [] e = "Up" -> "recv_Up"
      [] e = "Held" -> "recv_Held"

\* the main thread returns an error from main: the program ends
Exit == pc' = "exit" /\ stack' = <<>>

Return == pc' = Head(stack) /\ stack' = Tail(stack)

\* ------------------------------------------------------ main thread actions
\* Scale::new (scale.rs:47-70): set_scale(1.0), then load the stored factor.
\* nvs_ok: the partition can be opened; get_ok: get_u32 returns Ok.
ScaleNew ==
    /\ pc = "new"
    /\ \E nvs_ok \in BOOLEAN, get_ok \in BOOLEAN :
         IF ~nvs_ok
         THEN /\ Exit
              /\ hx_scale' = F32_ONE
              /\ UNCHANGED scale_factor
         ELSE LET loaded == IF get_ok /\ nvs # NoneOpt
                            THEN Some(from_bits(nvs[1])) ELSE NoneOpt
              IN  /\ scale_factor' = loaded
                  /\ hx_scale' = IF loaded # NoneOpt THEN loaded[1] ELSE F32_ONE
                  /\ pc' = "tare_begin"
                  /\ stack' = <<"startup">>
    /\ UNCHANGED <<last_button_event, nvs, sum, count, retries, scale_action,
                   polled, prompted, waited, cal_log>>
    /\ NoDequeue
    /\ UNCHANGED dvars

\* Scale::tare up to the call of hx711.tare (scale.rs:85-87)
TareBegin ==
    /\ pc = "tare_begin"
    /\ \E draw_ok \in BOOLEAN :
         IF draw_ok THEN pc' = "tare_run" /\ UNCHANGED stack ELSE Exit
    /\ UNCHANGED <<last_button_event, scale_factor, hx_scale, nvs, sum, count,
                   retries, scale_action, polled, prompted, waited, cal_log>>
    /\ NoDequeue
    /\ UNCHANGED dvars

\* hx711.tare returns and Scale::tare finishes (scale.rs:89-94)
TareEnd ==
    /\ pc = "tare_run"
    /\ \E draw_ok \in BOOLEAN :
         IF draw_ok THEN Return ELSE Exit
    /\ IF Head(stack) = "cal_prompt2" THEN Log("tare") ELSE UNCHANGED cal_log
    /\ UNCHANGED <<last_button_event, scale_factor, hx_scale, nvs, sum, count,
                   retries, scale_action, polled, prompted, waited>>
    /\ NoDequeue
    /\ UNCHANGED dvars

\* a needs_calibration that never asks for a calibration
needs_calibration_never(sf) == FALSE

\* Scale::needs_calibration (scale.rs:73-75)
needs_calibration(sf) == sf = NoneOpt

\* main.rs:50-52
StartupCheck ==
    /\ pc = "startup"
    /\ IF needs_calibration(scale_factor)
       THEN pc' = "cal_clear1" /\ stack' = <<"poll">> /\ cal_log' = <<>>
       ELSE pc' = "poll" /\ UNCHANGED <<stack, cal_log>>
    /\ UNCHANGED <<last_button_event, scale_factor, hx_scale, nvs, sum, count,
                   retries, scale_action, polled, prompted, waited>>
    /\ NoDequeue
    /\ UNCHANGED dvars

\* a clear_events that keeps the events it drains as the last button event
ClearStepStoring(at, next) ==
    /\ pc = at
    /\ IF event_queue # <<>>
       THEN /\ Dequeue
            /\ last_button_event' = Some(Head(event_queue))
            /\ UNCHANGED <<pc, stack, cal_log>>
       ELSE /\ NoDequeue
            /\ Log("drained")
            /\ UNCHANGED last_button_event
            /\ IF next = "return" THEN Return ELSE pc' = next /\ UNCHANGED stack
    /\ UNCHANGED <<scale_factor, hx_scale, nvs, sum, count,
                   retries, scale_action, polled, prompted, waited>>
    /\ UNCHANGED dvars

\* one try_recv of ButtonEventHandle::clear_events (button.rs:142-144)
ClearStep(at, next) ==
    /\ pc = at
    /\ IF event_queue # <<>>
       THEN Dequeue /\ UNCHANGED <<pc, stack, cal_log>>
       ELSE /\ NoDequeue
            /\ Log("drained")
            /\ IF next = "return" THEN Return ELSE pc' = next /\ UNCHANGED stack
    /\ UNCHANGED <<last_button_event, scale_factor, hx_scale, nvs, sum, count,
                   retries, scale_action, polled, prompted, waited>>
    /\ UNCHANGED dvars

\* a draw_text_clear_flush of calibrate that only prompts or informs
DrawStep(at, next) ==
    /\ pc = at
    /\ \E draw_ok \in BOOLEAN :
         IF draw_ok THEN pc' = next /\ UNCHANGED stack ELSE Exit
    /\ Log(at)
    /\ waited' = <<>>
    /\ prompted' = Len(sent)
    /\ UNCHANGED <<last_button_event, scale_factor, hx_scale, nvs, sum, count,
                   retries, scale_action, polled>>
    /\ NoDequeue
    /\ UNCHANGED dvars

\* wait_for_event putting back the events it does not wait for
WaitStepRequeue(at, event, next) ==
    /\ pc = at
    /\ event_queue # <<>>
    /\ recvd' = Append(recvd, Head(event_queue))
    /\ waited' = Append(waited, Head(event_queue))
    /\ IF Head(event_queue) = event
       THEN /\ event_queue' = Tail(event_queue)
            /\ pc' = next
            /\ Log(RecvTag(Head(event_queue)))
       ELSE /\ event_queue' = Append(Tail(event_queue), Head(event_queue))
            /\ UNCHANGED <<pc, cal_log>>
    /\ UNCHANGED <<last_button_event, scale_factor, hx_scale, nvs, sum,
                   count, retries, scale_action, polled, prompted>>
    /\ UNCHANGED dvars

\* one recv of ButtonEventHandle::wait_for_event (button.rs:126-140); recv
\* blocks while the channel is empty and the Sender exists
WaitStep(at, event, next) ==
    /\ pc = at
    /\ IF event_queue # <<>>
       THEN /\ Dequeue
            /\ waited' = Append(waited, Head(event_queue))
            /\ IF wait_matches(Head(event_queue), event)
               THEN pc' = next /\ Log(RecvTag(Head(event_queue)))
               ELSE UNCHANGED <<pc, cal_log>>
       ELSE /\ ~sender_alive
            /\ NoDequeue
            /\ pc' = next
            /\ Log("recv_Err")
            /\ UNCHANGED waited
    /\ UNCHANGED <<last_button_event, scale_factor, hx_scale, nvs, sum,
                   count, retries, scale_action, polled, prompted>>
    /\ UNCHANGED dvars

CalClear1 == ClearStep("cal_clear1", "cal_prompt1")

CalPrompt1 == DrawStep("cal_prompt1", "cal_wait1")

\* scale.rs:135-137, the first wait and the call of tare that follows it
CalWait1 ==
    /\ WaitStep("cal_wait1", "Down", "tare_begin")
    /\ IF pc' = "tare_begin"
       THEN stack' = <<"cal_prompt2">> \o stack
       ELSE UNCHANGED stack

CalPrompt2 == DrawStep("cal_prompt2", "cal_wait2")

\* scale.rs:154
CalWait2 == WaitStep("cal_wait2", "Down", "cal_draw") /\ UNCHANGED stack

\* scale.rs:161
CalDraw == DrawStep("cal_draw", "cal_avg")

\* a loop test that lets get_avg_reading stop one sample short
avg_done_early(n, num_samples) == n + 1 >= num_samples

\* scale.rs:104, the test that ends the loop of get_avg_reading
avg_done(n, num_samples) == n >= num_samples

\* one iteration of the loop of get_avg_reading (scale.rs:103-115) whose read
\* succeeds with reading r
ReadOk ==
    /\ pc = "cal_avg"
    /\ ~avg_done(count, SCALE_CALIBRATION_NUM_SAMPLES)
    /\ \E r \in RawReadings :
         /\ sum' = sum + r
         /\ count' = count + 1
    /\ UNCHANGED <<pc, stack, last_button_event, scale_factor, hx_scale, nvs,
                   retries, scale_action, polled, prompted, waited, cal_log>>
    /\ NoDequeue
    /\ UNCHANGED dvars

\* one iteration whose read fails (scale.rs:111-113): the thread sleeps;
\* retries counts the failures up to MaxRetries
ReadErr ==
    /\ pc = "cal_avg"
    /\ ~avg_done(count, SCALE_CALIBRATION_NUM_SAMPLES)
    /\ pc' = "cal_sleep"
    /\ retries' = IF retries < MaxRetries THEN retries + 1 ELSE retries
    /\ UNCHANGED <<stack, last_button_event, scale_factor, hx_scale, nvs,
                   sum, count, scale_action, polled, prompted, waited, cal_log>>
    /\ NoDequeue
    /\ UNCHANGED dvars

\* the sleep after a failed read ends and the loop goes round (scale.rs:112)
ReadBackoff ==
    /\ pc = "cal_sleep"
    /\ pc' = "cal_avg"
    /\ UNCHANGED <<stack, last_button_event, scale_factor, hx_scale, nvs,
                   sum, count, retries, scale_action, polled, prompted, waited, cal_log>>
    /\ NoDequeue
    /\ UNCHANGED dvars

\* get_avg_reading returns and calibrate finishes up to the final
\* clear_events (scale.rs:104-106, 116, 163-187)
CalFinalize ==
    /\ pc = "cal_avg"
    /\ avg_done(count, SCALE_CALIBRATION_NUM_SAMPLES)
    /\ \E draw_ok \in BOOLEAN, set_ok \in BOOLEAN :
         IF avg_is_zero(sum, count)
         THEN /\ Log("failed")
              /\ IF draw_ok THEN Return ELSE Exit
              /\ UNCHANGED <<scale_factor, hx_scale, nvs>>
         ELSE LET f == calibration_factor(sum, count)
              IN  /\ hx_scale' = f
                  /\ scale_factor' = Some(f)
                  /\ IF ~draw_ok
                     THEN /\ Exit
                          /\ Log("applied")
                          /\ UNCHANGED nvs
                     ELSE /\ pc' = after_save(set_ok)
                          /\ UNCHANGED stack
                          /\ nvs' = IF set_ok THEN Some(to_bits(f)) ELSE nvs
                          /\ cal_log' = cal_log \o
                               <<"applied", IF set_ok THEN "set_ok" ELSE "set_err">>
    /\ sum' = 0
    /\ count' = 0
    /\ retries' = 0
    /\ UNCHANGED <<last_button_event, scale_action, polled, prompted, waited>>
    /\ NoDequeue
    /\ UNCHANGED dvars

\* scale.rs:190-191
CalClear2 == ClearStep("cal_clear2", "return")

\* Scale::poll_action (scale.rs:194-217) called at main.rs:55
PollAction ==
    /\ pc = "poll"
    /\ pc' = "dispatch"
    /\ IF event_queue = <<>>
       THEN /\ NoDequeue
            /\ scale_action' = NoneOpt
            /\ UNCHANGED <<last_button_event, polled>>
       ELSE LET r == poll_match(last_button_event, Head(event_queue))
            IN  /\ Dequeue
                /\ last_button_event' = r.last
                /\ scale_action' = r.action
                /\ polled' = Append(polled, <<Head(event_queue), r.action,
                                              Len(recvd) + 1>>)
    /\ UNCHANGED <<stack, scale_factor, hx_scale, nvs, sum, count, retries,
                   waited, prompted, cal_log>>
    /\ UNCHANGED dvars

\* main.rs:57-66
Dispatch ==
    /\ pc = "dispatch"
    /\ IF scale_action = Some("Tare")
       THEN pc' = "tare_begin" /\ stack' = <<"grams">> /\ UNCHANGED cal_log
       ELSE IF scale_action = Some("Calibrate")
       THEN pc' = "cal_clear1" /\ stack' = <<"grams">> /\ cal_log' = <<>>
       ELSE pc' = "grams" /\ UNCHANGED <<stack, cal_log>>
    /\ UNCHANGED <<last_button_event, scale_factor, hx_scale, nvs, sum, count,
                   retries, scale_action, polled, prompted, waited>>
    /\ NoDequeue
    /\ UNCHANGED dvars

\* main.rs:68-78, poll_grams, the weight drawn, and the sleep
Grams ==
    /\ pc = "grams"
    /\ \E draw_ok \in BOOLEAN :
         IF draw_ok THEN pc' = "poll" /\ UNCHANGED stack ELSE Exit
    /\ scale_action' = NoneOpt
    /\ UNCHANGED <<last_button_event, scale_factor, hx_scale, nvs, sum, count,
                   retries, polled, prompted, waited, cal_log>>
    /\ NoDequeue
    /\ UNCHANGED dvars

Main ==
    \/ ScaleNew
    \/ TareBegin
    \/ TareEnd
    \/ StartupCheck
    \/ CalClear1
    \/ CalPrompt1
    \/ CalWait1
    \/ CalPrompt2
    \/ CalWait2
    \/ CalDraw
    \/ ReadOk
    \/ ReadErr
    \/ ReadBackoff
    \/ CalFinalize
    \/ CalClear2
    \/ PollAction
    \/ Dispatch
    \/ Grams

\* ------------------------------------------------------------ whole program
\* factors left in the store by earlier calibrations
StoredFactors == {calibration_factor(t, SCALE_CALIBRATION_NUM_SAMPLES) : t \in PriorSums}

InitMain ==
    /\ sender_alive = TRUE
    /\ pc = "new"
    /\ stack = <<>>
    /\ last_button_event = NoneOpt
    /\ scale_factor = NoneOpt
    /\ hx_scale = F32_ONE
    /\ sum = 0
    /\ count = 0
    /\ retries = 0
    /\ scale_action = NoneOpt
    /\ recvd = <<>>
    /\ polled = <<>>
    /\ prompted = 0
    /\ waited = <<>>
    /\ cal_log = <<>>

InitDispatcher ==
    /\ history = NewHistory(inverted)
    /\ down_time = None
    /\ next_long_time = None
    /\ event_queue = <<>>
    /\ now = 0
    /\ pin \in {0, 1}
    /\ toggles = 0
    /\ steady = 0
    /\ clean = FALSE
    /\ released_after = None
    /\ sent = <<>>
    /\ raw = NewHistory(inverted)
    /\ nsamples = 0
    /\ fresh = 0
    /\ probe = <<>>

\* start_button_task(button, true) at scale.rs:48
Init ==
    /\ inverted = TRUE
    /\ InitDispatcher
    /\ pin = ReleasedLevel(inverted)
    /\ InitMain
    /\ nvs \in {NoneOpt} \cup {Some(to_bits(f)) : f \in StoredFactors}

\* the clock readings explored for the whole program
ProgClockReadings ==
    {b * STALL_MS + a * CONFIG_ESP32_POLLING_PERIOD_MS :
        b \in 0..MaxStalls, a \in 0..MaxProgTicks}

\* the dispatcher's history shows only the present level of the pin
Settled == history = (IF pin = 1 THEN ALL_ONES ELSE ALL_ZEROS)

\* nothing is in progress in the dispatcher: a tick would only move the clock
Idle == Settled /\ (down_time = None \/ next_long_time = None)

\* The whole program is explored for an operator who presses and releases
\* cleanly (the pin changes only once the history has settled), leaving out
\* the ticks that only move the clock, with the dispatcher held up only
\* during a settled open press; the program ends when main returns.
Next ==
    \/ /\ pc # "exit"
       /\ ~Idle
       /\ Tick
       /\ now' \in ProgClockReadings
       /\ now' - now = STALL_MS => (Settled /\ down_time # None)
    \/ /\ pc # "exit"
       /\ Settled
       /\ PinChange
    \/ Main

Spec == Init /\ [][Next]_vars

\* --------------------------------------------- a channel that can be closed
\* The dispatcher thread ends and its Sender is dropped: recv then returns
\* Err once the queue is empty (button.rs:134-137).
SenderDropped ==
    /\ sender_alive
    /\ pc # "exit"
    /\ sender_alive' = FALSE
    /\ UNCHANGED <<bvars, pc, stack, last_button_event, scale_factor, hx_scale,
                   nvs, sum, count, retries, scale_action, recvd, polled, prompted,
                   waited, cal_log>>

NextClosed ==
    \/ Next
    \/ SenderDropped

SpecClosed == Init /\ [][NextClosed]_vars

\* ------------------------------------------ calibrate, power cycle, reload
\* the sums of readings a calibration is finalized with
CalSums == (-MaxSum..MaxSum) \ {0}

\* calibrate called at startup has read its sixteen samples
InitReload ==
    /\ inverted = TRUE
    /\ InitDispatcher
    /\ pin = ReleasedLevel(inverted)
    /\ sender_alive = TRUE
    /\ pc = "cal_avg"
    /\ stack = <<"poll">>
    /\ last_button_event = NoneOpt
    /\ scale_factor = NoneOpt
    /\ hx_scale = F32_ONE
    /\ nvs = NoneOpt
    /\ sum \in CalSums
    /\ count = SCALE_CALIBRATION_NUM_SAMPLES
    /\ retries = 0
    /\ scale_action = NoneOpt
    /\ recvd = <<>>
    /\ polled = <<>>
    /\ prompted = 0
    /\ waited = <<>>
    /\ cal_log = <<"drained", "cal_prompt1", "recv_Down", "tare", "cal_prompt2",
                   "recv_Down", "cal_draw">>

\* The device is switched off and on: main starts again (main.rs:18) with
\* nothing kept but the store.
Reboot ==
    /\ pc \in {"poll", "exit"}
    /\ pc' = "new"
    /\ stack' = <<>>
    /\ last_button_event' = NoneOpt
    /\ scale_factor' = NoneOpt
    /\ hx_scale' = F32_ONE
    /\ sum' = 0
    /\ count' = 0
    /\ retries' = 0
    /\ scale_action' = NoneOpt
    /\ recvd' = <<>>
    /\ polled' = <<>>
    /\ prompted' = 0
    /\ waited' = <<>>
    /\ cal_log' = <<>>
    /\ UNCHANGED <<bvars, sender_alive, nvs>>

NextReload ==
    \/ CalFinalize
    \/ CalClear2
    \/ Reboot
    \/ ScaleNew

SpecReload == InitReload /\ [][NextReload]_vars

\* --------------------------------- button_rose and button_fell on their own
\* a Button with every 16-bit history, no thread running
InitEdge ==
    /\ inverted = TRUE
    /\ history \in 0..(U16 - 1)
    /\ down_time = None
    /\ next_long_time = None
    /\ event_queue = <<>>
    /\ now = 0
    /\ pin = ReleasedLevel(inverted)
    /\ toggles = 0
    /\ steady = 0
    /\ clean = FALSE
    /\ released_after = None
    /\ sent = <<>>
    /\ raw = NewHistory(inverted)
    /\ nsamples = 0
    /\ fresh = 0
    /\ probe = <<>>
    /\ InitMain
    /\ nvs = NoneOpt

\* self.button_rose() with no button_update in between
CallRose ==
    /\ Len(probe) < MaxCalls
    /\ history' = button_rose(history).history
    /\ probe' = Append(probe, <<"rose", button_rose(history).ret>>)
    /\ UNCHANGED <<inverted, down_time, next_long_time, event_queue, now, pin,
                   toggles, steady, clean, released_after, sent, raw, nsamples,
                   fresh>>
    /\ UNCHANGED mvars

\* self.button_fell() with no button_update in between
CallFell ==
    /\ Len(probe) < MaxCalls
    /\ history' = button_fell(history).history
    /\ probe' = Append(probe, <<"fell", button_fell(history).ret>>)
    /\ UNCHANGED <<inverted, down_time, next_long_time, event_queue, now, pin,
                   toggles, steady, clean, released_after, sent, raw, nsamples,
                   fresh>>
    /\ UNCHANGED mvars

NextEdge ==
    \/ CallRose
    \/ CallFell

SpecEdge == InitEdge /\ [][NextEdge]_vars

\* --------------------------------------------- get_avg_reading on its own
\* calibrate called at startup is about to call get_avg_reading
InitAvg ==
    /\ inverted = TRUE
    /\ InitDispatcher
    /\ pin = ReleasedLevel(inverted)
    /\ sender_alive = TRUE
    /\ pc = "cal_avg"
    /\ stack = <<"poll">>
    /\ last_button_event = NoneOpt
    /\ scale_factor = NoneOpt
    /\ hx_scale = F32_ONE
    /\ nvs = NoneOpt
    /\ sum = 0
    /\ count = 0
    /\ retries = 0
    /\ scale_action = NoneOpt
    /\ recvd = <<>>
    /\ polled = <<>>
    /\ prompted = 0
    /\ waited = <<>>
    /\ cal_log = <<"drained", "cal_prompt1", "recv_Down", "tare", "cal_prompt2",
                   "recv_Down", "cal_draw">>

NextAvg ==
    \/ ReadOk
    \/ ReadErr
    \/ ReadBackoff
    \/ CalFinalize

\* The main thread keeps running, and a sensor that is read again and again
\* delivers a reading again and again.
SpecAvg ==
    /\ InitAvg
    /\ [][NextAvg]_vars
    /\ WF_vars(NextAvg)
    /\ SF_vars(ReadOk)

\* the same thread with a sensor that may fail for ever
SpecAvgFailing ==
    /\ InitAvg
    /\ [][NextAvg]_vars
    /\ WF_vars(NextAvg)

\* ------------------------------------------------- poll_action on its own
\* the event sequences of at most MaxQueue events
EventSeqs == UNION {[1..k -> ButtonEvent] : k \in 0..MaxQueue}

\* The main loop at poll_action with any last event and any events queued.
InitPoll ==
    /\ inverted = TRUE
    /\ history = NewHistory(inverted)
    /\ down_time = None
    /\ next_long_time = None
    /\ event_queue \in EventSeqs
    /\ sent = event_queue
    /\ now = 0
    /\ pin = ReleasedLevel(inverted)
    /\ toggles = 0
    /\ steady = 0
    /\ clean = FALSE
    /\ released_after = None
    /\ raw = NewHistory(inverted)
    /\ nsamples = 0
    /\ fresh = 0
    /\ probe = <<>>
    /\ sender_alive = TRUE
    /\ pc = "poll"
    /\ stack = <<>>
    /\ last_button_event \in {NoneOpt} \cup {Some(e) : e \in ButtonEvent}
    /\ scale_factor = Some(F32_ONE)
    /\ hx_scale = F32_ONE
    /\ nvs = Some(to_bits(F32_ONE))
    /\ sum = 0
    /\ count = 0
    /\ retries = 0
    /\ scale_action = NoneOpt
    /\ recvd = <<>>
    /\ polled = <<>>
    /\ prompted = 0
    /\ waited = <<>>
    /\ cal_log = <<>>

\* main.rs:54-55, the loop comes back to poll_action
PollAgain ==
    /\ pc = "dispatch"
    /\ pc' = "poll"
    /\ scale_action' = NoneOpt
    /\ UNCHANGED <<bvars, sender_alive, stack, last_button_event, scale_factor,
                   hx_scale, nvs, sum, count, retries, recvd, polled, prompted, waited,
                   cal_log>>

NextPoll ==
    \/ PollAction
    \/ PollAgain

SpecPoll == InitPoll /\ [][NextPoll]_vars

\* ------------------------------------------------- the dispatcher on its own
\* Button::new for either polarity; the pin may be at either level at start.
InitButton ==
    /\ inverted \in BOOLEAN
    /\ InitDispatcher
    /\ InitMain
    /\ nvs = NoneOpt

\* Explored on its own, the dispatcher is held up only during an open press
\* (a long delay with no press open only shifts the clock), with the pin at
\* either level at the start and changing MaxPinChanges times at any ticks.
NextButton ==
    \/ /\ Tick
       /\ now' \in ClockReadings
       /\ now' - now = STALL_MS => down_time # None
    \/ /\ toggles < MaxPinChanges
       /\ PinChange

SpecButton == InitButton /\ [][NextButton]_vars

\* ------------------------------------------------------ event bookkeeping
Last(s) == s[Len(s)]

\* index of the last occurrence of e in s, 0 when there is none
LastIdx(s, e) ==
    IF \E i \in 1..Len(s) : s[i] = e
    THEN CHOOSE i \in 1..Len(s) :
             s[i] = e /\ \A j \in (i + 1)..Len(s) : s[j] # e
    ELSE 0

\* the events of the latest press: from the last Down on
CurPress(s) ==
    IF LastIdx(s, "Down") = 0 THEN <<>> ELSE SubSeq(s, LastIdx(s, "Down"), Len(s))

\* the events after the last Up
AfterLastUp(s) == SubSeq(s, LastIdx(s, "Up") + 1, Len(s))

\* s is a prefix of (Down, optional Held, Up)*
PressPattern(s) ==
    \A i \in 1..Len(s) :
        /\ s[i] = "Down" => (i = 1 \/ s[i - 1] = "Up")
        /\ s[i] = "Held" => (i > 1 /\ s[i - 1] = "Down")
        /\ s[i] = "Up" => (i > 1 /\ s[i - 1] \in {"Down", "Held"})

Emitted(e) == Len(sent') = Len(sent) + 1 /\ Last(sent') = e

\* ------------------------------------------------------------------ claims
\* C1: the events pushed by the dispatcher form a prefix of
\* (Down, optional single Held, Up)*, and one tick pushes at most one event.
C1_EventGrammar ==
    /\ [](PressPattern(sent))
    /\ [][Len(sent') <= Len(sent) + 1
          /\ SubSeq(sent', 1, Len(sent)) = sent]_vars

C1_Witness == sent = <<"Down", "Held", "Up", "Down">>

\* C3: a press that starts from a settled released pin and is not released
\* yields Down once six pressed samples are in, Held on the first tick that
\* reads the clock 3000 ms or more after Down, and no further event.
C3_DownThenOneHeld ==
    (clean /\ pin = PressedLevel(inverted)) =>
        /\ AfterLastUp(sent) \in {<<>>, <<"Down">>, <<"Down", "Held">>}
        /\ steady >= 6 => Len(AfterLastUp(sent)) >= 1
        /\ (down_time # None
             /\ now >= down_time + CONFIG_ESP32_BUTTON_LONG_PRESS_DURATION_MS)
              => AfterLastUp(sent) = <<"Down", "Held">>

C3_Witness ==
    /\ clean /\ pin = PressedLevel(inverted)
    /\ AfterLastUp(sent) = <<"Down", "Held">>
    /\ now > down_time + CONFIG_ESP32_BUTTON_LONG_PRESS_DURATION_MS

\* C4 (as stated), for a dispatcher that has polled every 10 ms since the
\* release: when the pin returns to the released level less than 3000 ms
\* after Down was emitted and stays there, the press yields Down and then Up
\* with no Held in between, so until the Up only Down has been emitted.
C4_ReleasedBeforeThreshold ==
    (/\ released_after # None
     /\ released_after < CONFIG_ESP32_BUTTON_LONG_PRESS_DURATION_MS
     /\ down_time # None
     /\ steady < 16
     /\ now = down_time + released_after
                + steady * CONFIG_ESP32_POLLING_PERIOD_MS)
        => CurPress(sent) = <<"Down">>

\* C4 (amended): when the release is confirmed, i.e. Up is emitted, on a tick
\* that reads the clock less than 3000 ms after the Down tick, the press has
\* yielded exactly Down, Up without Held.
C4_UpConfirmedBeforeThreshold ==
    [][(Emitted("Up")
        /\ now' < down_time + CONFIG_ESP32_BUTTON_LONG_PRESS_DURATION_MS)
          => CurPress(sent') = <<"Down", "Up">>]_vars

C4_Witness ==
    /\ CurPress(sent) = <<"Down", "Up">>
    /\ released_after # None
    /\ next_long_time # None /\ now < next_long_time

\* C10: Up is emitted only on a confirmed rise when inverted and only on a
\* confirmed fall otherwise, Down the other way round, and nothing is
\* emitted while the pin has stayed at its idle level since startup.
C10_Polarity ==
    /\ [][LET h == button_update(history, pin)
              rose == BitAnd(h, HISTORY_MASK, 16) = ROSE_PATTERN /\ pin = 1
              fell == BitAnd(h, HISTORY_MASK, 16) = FELL_PATTERN /\ pin = 0
          IN  /\ Emitted("Up") =>
                    IF inverted THEN rose /\ history' = ALL_ONES
                                ELSE fell /\ history' = ALL_ZEROS
              /\ Emitted("Down") =>
                    IF inverted THEN fell /\ history' = ALL_ZEROS
                                ELSE rose /\ history' = ALL_ONES]_vars
    /\ []((toggles = 0 /\ pin = ReleasedLevel(inverted)) => sent = <<>>)

C10_Witness == ~inverted /\ sent = <<"Down", "Up">> /\ pin = 0

\* the events and the actions of the poll_action calls that got an event
PolledEvents == [i \in 1..Len(polled) |-> polled[i][1]]
PolledActions == [i \in 1..Len(polled) |-> polled[i][2]]

\* C2: poll_action stores the dequeued event and returns Tare on Up after
\* Down, Calibrate on Held after Down, nothing otherwise, and with an empty
\* queue returns nothing and changes nothing; so [Down], [Down, Up],
\* [Down, Held], [Down, Held, Up] give the stated actions.
C2_PollAction ==
    /\ [][(pc = "poll" /\ pc' = "dispatch") =>
            IF event_queue = <<>>
            THEN /\ scale_action' = NoneOpt
                 /\ last_button_event' = last_button_event
                 /\ event_queue' = event_queue
            ELSE LET e == Head(event_queue)
                     was_down == last_button_event = Some("Down")
                 IN  /\ last_button_event' = Some(e)
                     /\ event_queue' = Tail(event_queue)
                     /\ scale_action' =
                          IF e = "Up" /\ was_down THEN Some("Tare")
                          ELSE IF e = "Held" /\ was_down THEN Some("Calibrate")
                          ELSE NoneOpt]_vars
    /\ [](/\ PolledEvents = <<"Down">> => PolledActions = <<NoneOpt>>
          /\ PolledEvents = <<"Down", "Up">>
               => PolledActions = <<NoneOpt, Some("Tare")>>
          /\ PolledEvents = <<"Down", "Held">>
               => PolledActions = <<NoneOpt, Some("Calibrate")>>
          /\ PolledEvents = <<"Down", "Held", "Up">>
               => PolledActions = <<NoneOpt, Some("Calibrate"), NoneOpt>>)

C2_Witness ==
    /\ PolledEvents = <<"Down", "Held", "Up">>
    /\ PolledActions = <<NoneOpt, Some("Calibrate"), NoneOpt>>
    /\ last_button_event = Some("Up")

\* C5: when the sixteen readings sum to zero, so that their average is zero,
\* calibrate reports failure and leaves scale_factor, the sensor's scale and
\* the store as they were, without calling set_u32.
C5_ZeroAverage ==
    [][(pc = "cal_avg" /\ pc' \notin {"cal_avg", "cal_sleep"} /\ sum = 0) =>
         /\ scale_factor' = scale_factor
         /\ hx_scale' = hx_scale
         /\ nvs' = nvs
         /\ cal_log' = Append(cal_log, "failed")]_vars

C5_Witness ==
    /\ cal_log # <<>> /\ Last(cal_log) = "failed"
    /\ scale_factor = NoneOpt
    /\ nvs = NoneOpt
    /\ pc = "poll"

InLog(x) == \E i \in 1..Len(cal_log) : cal_log[i] = x

\* C6: when set_u32 fails after a non-zero average, the factor is applied
\* to the sensor and held in scale_factor, the store keeps what it had,
\* calibrate goes on to drain the channel and returns to its caller with no
\* error.
C6_SaveFailureSwallowed ==
    /\ []((cal_log # <<>> /\ Last(cal_log) = "set_err") =>
            /\ pc = "cal_clear2"
            /\ scale_factor # NoneOpt
            /\ scale_factor = Some(hx_scale))
    /\ [][(pc = "cal_clear2" /\ InLog("set_err")) =>
            /\ scale_factor' = scale_factor
            /\ hx_scale' = hx_scale
            /\ nvs' = nvs
            /\ \/ pc' = "cal_clear2"
               \/ /\ pc' = Head(stack)
                  /\ pc' \in {"poll", "grams"}
                  /\ event_queue = <<>>
                  /\ event_queue' = <<>>]_vars

C6_Witness ==
    /\ Len(cal_log) >= 2
    /\ SubSeq(cal_log, Len(cal_log) - 1, Len(cal_log)) = <<"set_err", "drained">>
    /\ scale_factor # NoneOpt
    /\ nvs = NoneOpt
    /\ pc = "poll"

\* number of Downs the waits of the present calibrate have returned on
DownsWaited == Cardinality({i \in 1..Len(cal_log) : cal_log[i] = "recv_Down"})

\* calibrate is past its first / second wait_for_event
PastWait1 ==
    \/ pc \in {"cal_prompt2", "cal_wait2", "cal_draw", "cal_avg", "cal_sleep",
              "cal_clear2"}
    \/ pc \in {"tare_begin", "tare_run"} /\ Head(stack) = "cal_prompt2"

PastWait2 == pc \in {"cal_draw", "cal_avg", "cal_sleep", "cal_clear2"}

\* C7: wait_for_event returns as on success only after dequeuing the event,
\* so also with the Sender gone calibrate is past its first wait only with
\* one Down dequeued and past its second only with two.
C7_WaitFailureStopsCalibrate ==
    /\ PastWait1 => DownsWaited >= 1
    /\ PastWait2 => DownsWaited >= 2

\* C8: the channel loses and reorders nothing, and a wait_for_event(Down)
\* takes exactly the events ahead of the first Down and that Down.
C8_WaitTakesUpToFirstMatch ==
    /\ sent = recvd \o event_queue
    /\ \A i \in 1..(Len(waited) - 1) : waited[i] # "Down"
    /\ (pc \in {"cal_wait1", "cal_wait2"} /\ waited # <<>>)
          => Last(waited) # "Down"
    /\ (PastWait1 /\ pc \notin {"cal_wait2", "cal_avg", "cal_sleep", "cal_clear2"})
          => /\ waited # <<>>
             /\ Last(waited) = "Down"
             /\ Len(waited) <= Len(recvd)
             /\ SubSeq(recvd, Len(recvd) - Len(waited) + 1, Len(recvd)) = waited

C8_Witness ==
    /\ pc = "cal_draw"
    /\ waited = <<"Up", "Down">>
    /\ Len(recvd) > 2

IsPrefix(a, b) == Len(a) <= Len(b) /\ SubSeq(b, 1, Len(a)) = a

\* the orders in which a run of calibrate can do its steps
CalOrders ==
    {<<"drained", "cal_prompt1", "recv_Down", "tare", "cal_prompt2",
       "recv_Down", "cal_draw">> \o tail :
        tail \in {<<"failed">>, <<"applied">>,
                  <<"applied", "set_ok", "drained">>,
                  <<"applied", "set_err", "drained">>}}

\* C9: calibrate drains, waits for a Down, tares, waits for a second Down,
\* samples, finalizes, in this order; no sample is read and no factor is
\* applied or stored before both Downs have been dequeued.
C9_CalibrateOrder ==
    /\ \E o \in CalOrders : IsPrefix(cal_log, o)
    /\ (pc \in {"cal_avg", "cal_sleep"} \/ count > 0)
          => (Len(cal_log) = 7 /\ DownsWaited = 2)
    /\ pc = "cal_clear2" => (InLog("applied") /\ scale_factor = Some(hx_scale))
    /\ (InLog("set_ok") /\ pc = "cal_clear2") => nvs = Some(to_bits(hx_scale))

C9_Witness ==
    /\ cal_log = <<"drained", "cal_prompt1", "recv_Down", "tare", "cal_prompt2",
                   "recv_Down", "cal_draw", "applied", "set_ok", "drained">>
    /\ nvs = Some(to_bits(hx_scale))

\* where main is: 0 in Scale::new, 1 in the tare of main.rs:49, 2 at the
\* test of main.rs:50, 3 in the calibrate of main.rs:51, 4 in the loop,
\* 5 after main returned an error
Phase ==
    IF pc = "exit" THEN 5
    ELSE IF pc = "new" THEN 0
    ELSE IF pc = "startup" THEN 2
    ELSE IF stack # <<>> /\ Last(stack) = "startup" THEN 1
    ELSE IF stack # <<>> /\ Last(stack) = "poll" THEN 3
    ELSE 4

\* C11: at startup the stored factor is loaded and, if present, applied to
\* the sensor (else the sensor's scale is 1.0); then tare runs once; then
\* calibrate runs once if and only if no factor was loaded; only then does
\* the loop poll.
C11_Startup ==
    /\ [](Phase \in {1, 2} =>
            /\ scale_factor \in {NoneOpt} \cup
                  (IF nvs = NoneOpt THEN {} ELSE {Some(from_bits(nvs[1]))})
            /\ hx_scale = IF scale_factor = NoneOpt THEN F32_ONE
                          ELSE scale_factor[1]
            /\ polled = <<>> /\ cal_log = <<>>)
    /\ [](Phase = 1 => pc \in {"tare_begin", "tare_run"})
    /\ [](Phase = 3 => polled = <<>>)
    /\ [][/\ Phase = 0 => Phase' \in {0, 1, 5}
          /\ Phase = 1 => Phase' \in {1, 5} \/ (Phase' = 2 /\ pc = "tare_run")
          /\ Phase = 2 =>
               \/ Phase' = 2
               \/ /\ scale_factor = NoneOpt
                  /\ Phase' = 3 /\ pc' = "cal_clear1"
               \/ /\ scale_factor # NoneOpt
                  /\ Phase' = 4 /\ pc' = "poll"
          /\ Phase = 3 =>
               \/ Phase' \in {3, 5}
               \/ /\ Phase' = 4 /\ pc' = "poll"
                  /\ pc \in {"cal_avg", "cal_clear2"}
          /\ Phase = 4 => Phase' \in {4, 5}
          /\ Phase = 5 => Phase' = 5]_vars

C11_Witness ==
    /\ pc = "poll"
    /\ polled = <<>>
    /\ InLog("applied")
    /\ sent # <<>>

\* C12: after a calibration that saved, the stored 32 bits are the bits of
\* the factor held in memory and applied to the sensor, and they decode to
\* that factor; the store is not touched by a power cycle, and a load of the
\* key gives a factor whose bits are the stored ones.
C12_RoundTrip ==
    /\ []((cal_log # <<>> /\ Last(cal_log) = "set_ok") =>
            /\ scale_factor = Some(hx_scale)
            /\ nvs = Some(to_bits(hx_scale))
            /\ from_bits(nvs[1]) = hx_scale)
    /\ [][(pc \in {"poll", "exit", "new"}) => nvs' = nvs]_vars
    /\ [][(pc = "new" /\ scale_factor' # NoneOpt) =>
            /\ nvs # NoneOpt
            /\ to_bits(scale_factor'[1]) = nvs[1]
            /\ hx_scale' = scale_factor'[1]]_vars

C12_Witness ==
    /\ pc = "tare_begin"
    /\ scale_factor # NoneOpt
    /\ scale_factor[1].s = 1
    /\ scale_factor[1].m % Pow2(16) # 0
    /\ nvs = Some(to_bits(scale_factor[1]))

\* the samples HISTORY_MASK keeps: the six newest and the four oldest
Newest6(h) == h % 64
Oldest4(h) == h \div 4096

\* C13: button_rose returns true exactly when the four oldest samples are 0
\* and the six newest are 1, then leaves history all ones, and otherwise
\* leaves it unchanged; called again at once it returns false.  button_fell
\* likewise for four oldest 1 and six newest 0, leaving all zeros.
C13_EdgeDetectors ==
    [][probe' # probe =>
        LET call == Last(probe')
            rose == Oldest4(history) = 0 /\ Newest6(history) = 63
            fell == Oldest4(history) = 15 /\ Newest6(history) = 0
        IN  /\ call[1] = "rose" =>
                 /\ call[2] = rose
                 /\ history' = IF rose THEN 65535 ELSE history
                 /\ (probe # <<>> /\ Last(probe) = <<"rose", TRUE>>)
                      => call[2] = FALSE
            /\ call[1] = "fell" =>
                 /\ call[2] = fell
                 /\ history' = IF fell THEN 0 ELSE history
                 /\ (probe # <<>> /\ Last(probe) = <<"fell", TRUE>>)
                      => call[2] = FALSE]_vars

C13_Witness ==
    /\ probe = <<<<"rose", TRUE>>, <<"rose", FALSE>>>>
    /\ history = ALL_ONES

\* C14: next_long_time is set only while down_time is set (the tick that
\* sends Up clears both).
C14_TimestampsCleared == next_long_time # None => down_time # None

\* C15 (as stated): once 16 samples have been taken, history is the 16 most
\* recent raw samples.
C15_HistoryIsLast16 == nsamples >= 16 => history = raw

\* C15 (amended): history holds, newest in bit 0, the samples taken since it
\* was last set whole, by Button::new or by the tick that confirmed an edge,
\* and above them bits that are all ones or all zeros; sixteen samples after
\* that it is the 16 most recent raw samples.  A tick that confirms no edge
\* shifts in the new sample and discards only the oldest bit.
C15_HistorySinceSet ==
    /\ [](/\ history % Pow2(fresh) = raw % Pow2(fresh)
          /\ history \div Pow2(fresh) \in {0, Pow2(16 - fresh) - 1})
    /\ [][now' # now =>
            IF Len(sent') > Len(sent) /\ Last(sent') \in {"Up", "Down"}
            THEN history' \in {ALL_ONES, ALL_ZEROS} /\ fresh' = 0
            ELSE /\ history' = ((2 * history) % U16) + pin
                 /\ fresh' \in {fresh + 1, 16}]_vars

C15_Witness ==
    /\ sent # <<>>
    /\ fresh = 16
    /\ nsamples = 16
    /\ history = raw
    /\ history \notin {ALL_ONES, ALL_ZEROS}

InAvg == pc \in {"cal_avg", "cal_sleep"}

\* C16: get_avg_reading(16) returns only with count = 16, each successful
\* read adding one to count and the reading to sum; a failed read changes
\* neither, surfaces no error and is followed by another read; with a sensor
\* that keeps delivering readings the call returns.
C16_AvgReading ==
    /\ [](InAvg => count <= SCALE_CALIBRATION_NUM_SAMPLES)
    /\ [][InAvg =>
            /\ InAvg' =>
                 \/ /\ count' = count + 1
                    /\ sum' - sum \in RawReadings
                    /\ pc = "cal_avg" /\ pc' = "cal_avg"
                 \/ /\ count' = count /\ sum' = sum
                    /\ count < SCALE_CALIBRATION_NUM_SAMPLES \/ pc' = pc
            /\ ~InAvg' => (pc = "cal_avg" /\ count = SCALE_CALIBRATION_NUM_SAMPLES)
            /\ pc' # "exit" \/ count = SCALE_CALIBRATION_NUM_SAMPLES]_vars
    /\ <>(~InAvg)

\* the part of C16 about termination, for a sensor that may fail for ever
C16_ReturnsAnyway == <>(~InAvg)

C16_Witness ==
    /\ pc = "cal_avg"
    /\ count = SCALE_CALIBRATION_NUM_SAMPLES
    /\ retries > 0
    /\ sum = 0

\* the 13 newest bits of the history are all at this level: bit 12 then
\* stays at it for as long as the pin does
Low13At(level) == history % 8192 = (IF level = 1 THEN 8191 ELSE 0)

\* C17: a steady pressed level with no press open leads to Down, and a
\* steady released level with a press open leads to Up.  Stated on the
\* states it forbids: those where the pin is steady against the press state
\* and the edge pattern, which needs the four oldest bits at the other
\* level, can no longer appear while the pin stays as it is.
C17_SteadyLevelDetected ==
    /\ ~(/\ down_time = None
         /\ pin = PressedLevel(inverted)
         /\ Low13At(PressedLevel(inverted)))
    /\ ~(/\ down_time # None
         /\ pin = ReleasedLevel(inverted)
         /\ Low13At(ReleasedLevel(inverted)))

\* the six newest raw samples are all at this level
Raw6At(r, level) == r % 64 = (IF level = 1 THEN 63 ELSE 0)

\* C18: Down is sent only on a tick whose six newest raw samples are all
\* pressed, Up only on one whose six newest raw samples are all released,
\* and a Down or Up comes at least six ticks after the Up or Down before it.
C18_BounceRejection ==
    [][Len(sent') > Len(sent) =>
        /\ Last(sent') = "Down" =>
             /\ nsamples' >= 6
             /\ Raw6At(raw', PressedLevel(inverted))
        /\ Last(sent') = "Up" =>
             /\ nsamples' >= 6
             /\ Raw6At(raw', ReleasedLevel(inverted))
        /\ (Last(sent') \in {"Down", "Up"} /\ sent # <<>>) => fresh + 1 >= 6]_vars

C18_Witness ==
    /\ sent = <<"Down", "Up", "Down">>
    /\ fresh = 0
    /\ now = 18 * CONFIG_ESP32_POLLING_PERIOD_MS

\* the press an event belongs to: the position in sent of the last Down at
\* or before position i (0 if there is none)
RECURSIVE PressOf(_)
PressOf(i) ==
    IF i = 0 THEN 0
    ELSE IF sent[i] = "Down" THEN i
    ELSE PressOf(i - 1)

\* the entries of polled that returned an action
ActionPolls == {j \in 1..Len(polled) : polled[j][2] # NoneOpt}

\* C19: when poll_action returns an action, the event it dequeued is the Up
\* (Tare) or Held (Calibrate) sent right after a Down, and that Down was
\* the event the previous poll_action dequeued; no two actions come from
\* the same press; an event dequeued outside poll_action leaves
\* last_button_event as it is.
C19_ActionsFromOwnPress ==
    /\ [][(pc = "poll" /\ scale_action' # NoneOpt) =>
            LET i == Len(recvd')
            IN  /\ recvd' # recvd
                /\ i >= 2
                /\ sent[i] = Head(event_queue)
                /\ sent[i] = (IF scale_action' = Some("Tare") THEN "Up" ELSE "Held")
                /\ sent[i - 1] = "Down"
                /\ polled # <<>>
                /\ Last(polled) = <<"Down", NoneOpt, i - 1>>]_vars
    /\ [](\A j, k \in ActionPolls :
            j # k => PressOf(polled[j][3]) # PressOf(polled[k][3]))
    /\ [][(recvd' # recvd /\ pc # "poll") =>
            last_button_event' = last_button_event]_vars

C19_Witness ==
    /\ Len(polled) = 2
    /\ polled[2] = <<"Held", Some("Calibrate"), 2>>
    /\ pc = "cal_wait2"
    /\ Len(recvd) >= 4
    /\ last_button_event = Some("Held")

\* C20: a wait of calibrate returns only on a Down that the dispatcher sent
\* after the prompt of that wait was drawn.
C20_DownAfterPrompt ==
    (pc \in {"tare_begin", "tare_run", "cal_draw"} /\ PastWait1
       /\ waited # <<>> /\ Last(waited) = "Down")
      => Len(recvd) > prompted

\* C21: Held is emitted only inside an open press: down_time is set and
\* stays set, the latest Down is later than every Up, the tick reads the
\* clock at least the long-press duration after the tick that sent that
\* Down, and the deadline tested is the one armed by that Down, never one
\* left behind by an earlier press.
C21_HeldInsideOpenPress ==
    /\ [][Emitted("Held") =>
            /\ down_time # None /\ down_time' = down_time
            /\ LastIdx(sent, "Down") > LastIdx(sent, "Up")
            /\ now' >= down_time + CONFIG_ESP32_BUTTON_LONG_PRESS_DURATION_MS
            /\ next_long_time
                 = down_time + CONFIG_ESP32_BUTTON_LONG_PRESS_DURATION_MS]_vars
    /\ [][Emitted("Down") =>
            /\ down_time' = now'
            /\ next_long_time'
                 = now' + CONFIG_ESP32_BUTTON_LONG_PRESS_DURATION_MS]_vars

\* a short press has left its deadline behind, and the next press is held
C21_Witness ==
    /\ sent = <<"Down", "Up", "Down", "Held">>
    /\ down_time # None
    /\ next_long_time = None

====
